---- MODULE Spec2Model ----
(***************************************************************************)
(* MangaNano: the upload queue of the App component, its batch run         *)
(* (processImages), the edit-and-regenerate dialog, the API key handling,  *)
(* the global context, the archive download, and the two service functions *)
(* translateMangaImage and regenerateMangaImage with the remote model as   *)
(* the environment.                                                        *)
(*                                                                         *)
(* Strings are sequences of tokens, so that concatenation, trim, includes  *)
(* and the truthiness test of JavaScript are computed and not assumed.     *)
(* An async handler is one action per stretch between two awaits; the      *)
(* values its closure captured (images, apiKey, targetLanguage, editingId, *)
(* editingText) are kept in the record of the handler in flight.           *)
(*                                                                         *)
(* Spec takes two things from the environment for granted: the ids drawn   *)
(* with Math.random are distinct, and the remote service throws no error   *)
(* whose message is the text API_KEY_ERROR. SpecDrawnIds and               *)
(* SpecAnyMessage drop one of the two each; SpecFair adds the fairness of  *)
(* pending file reads and remote calls.                                    *)
(***************************************************************************)
EXTENDS Integers, Sequences, FiniteSets, TLC

\* ------------------------------------------------------------------ bounds
\* files uploaded in a session
MaxUploads == 2
\* batch runs started in a session
MaxRuns == 2
\* openings of the edit dialog in a session
MaxEdits == 1
\* files uploaded in a session that opens the edit dialog
MaxEditUploads == 1
\* presses of the Regenerate button in a session
MaxRegens == 2
\* openings of the edit dialog while a global context is set
MaxContextEdits == 0
\* files uploaded in a session while a global context is set
MaxContextUploads == 1

\* ----------------------------------------------------------------- strings
\* the JavaScript value undefined of an optional string field
Undefined == <<"#undefined">>

\* the empty string
Empty == <<>>

\* JavaScript truthiness of an optional string
Truthy(s) == s # Undefined /\ s # Empty

\* a || b on optional strings
OrElse(a, b) == IF Truthy(a) THEN a ELSE b

\* String.prototype.includes on token strings
Includes(s, sub) ==
    \E i \in 0..(Len(s) - Len(sub)) : SubSeq(s, i + 1, i + Len(sub)) = sub

\* error.message?.includes(sub): undefined message gives undefined (falsy)
MessageIncludes(msg, sub) == msg # Undefined /\ Includes(msg, sub)

IsBlank(tok) == tok = " "

RECURSIVE TrimLeft(_)
TrimLeft(s) == IF s # <<>> /\ IsBlank(Head(s)) THEN TrimLeft(Tail(s)) ELSE s

RECURSIVE TrimRight(_)
TrimRight(s) ==
    IF s # <<>> /\ IsBlank(s[Len(s)]) THEN TrimRight(SubSeq(s, 1, Len(s) - 1)) ELSE s

\* mutant: the key is taken as typed
TrimNothing(s) == s

\* String.prototype.trim
Trim(s) == TrimRight(TrimLeft(s))

\* ------------------------------------------------------------------- files
\* a File of the browser: its name (page.01.jpg), its media type and its bytes
Files ==
    { [name |-> <<"page", ".", "01", ".", "jpg">>, type |-> "image/jpeg", bytes |-> "B1"] }

\* `data:${mimeType};base64,${data}`
DataUrl(mimeType, data) == <<"data:", mimeType, ";base64", ",", data>>

\* the first index of token tok in s, or 0
IndexOf(s, tok) ==
    IF \E i \in 1..Len(s) : s[i] = tok
    THEN CHOOSE i \in 1..Len(s) : s[i] = tok /\ \A j \in 1..(i - 1) : s[j] # tok
    ELSE 0

\* s.split(',')[1] of a data URL whose payload holds no comma
SplitComma1(s) ==
    IF IndexOf(s, ",") = 0 THEN Undefined ELSE SubSeq(s, IndexOf(s, ",") + 1, Len(s))

\* fileToBase64 on success: the payload of readAsDataURL and file.type
FileToBase64(file) ==
    [data |-> SplitComma1(DataUrl(file.type, file.bytes)), mimeType |-> file.type]

\* ------------------------------------------------------------ remote model
AuthPhrase == <<"Requested", "entity", "was", "not", "found">>

ApiKeyError == <<"API_KEY_ERROR">>

MsgNotFound == <<"404", "Requested", "entity", "was", "not", "found", ".">>

MsgQuota == <<"Quota", "exceeded">>

\* messages of the errors the SDK call can throw; Undefined: a thrown value
\* with no message
ThrownMessages == {MsgNotFound, MsgQuota, Undefined}

TextPart(t) == [text |-> t, inlineData |-> Undefined]

ImagePart(d) == [text |-> Undefined, inlineData |-> <<d>>]

\* image payloads the inpainting model can return
OutData == {"o1", "o2"}

\* reference listings the recognition model can return
OcrTexts == {<<"t1">>}

\* a response is its list of candidates, a candidate the list of its parts
InpaintResponses ==
    {<<>>, << <<TextPart(<<"note">>)>> >>}
        \cup {<< <<TextPart(<<"note">>), ImagePart(d)>> >> : d \in OutData}

OcrResponses == {<<>>} \cup {<< <<TextPart(t)>> >> : t \in OcrTexts}

NoResponse == <<>>

Threw(msg) == [threw |-> TRUE, message |-> msg, response |-> NoResponse]

Responded(r) == [threw |-> FALSE, message |-> Undefined, response |-> r]

InpaintOutcomes ==
    {Threw(m) : m \in ThrownMessages} \cup {Responded(r) : r \in InpaintResponses}

OcrOutcomes == {Threw(m) : m \in ThrownMessages} \cup {Responded(r) : r \in OcrResponses}

\* ------------------------------------------------- services/geminiService
\* the label of Chinese in the Chinese interface (U+4E2D U+6587)
LabelZhongwen == "zh:Zhongwen"

\* the fixed Chinese instruction of both service functions, transliterated
ChineseInstruction ==
    "zh:translate the Japanese in the picture to Chinese, change nothing else nor the font."

\* the Chinese heading of the reference listing, transliterated
ChineseReferenceHeading == "\n\nzh:reference translations:\n"

IsChinese(targetLanguage) == targetLanguage = "Chinese" \/ targetLanguage = LabelZhongwen

\* the Chinese recognition instruction and its context heading, transliterated
ChineseOcrInstruction ==
    "zh:recognise the Japanese text of this page and translate it to Chinese."

ChineseContextHeading == "\n\nzh:context you can rely on:\n"

\* const promptContext = globalPrompt?.trim()
PromptContext(globalPrompt) ==
    IF globalPrompt = Undefined THEN Undefined ELSE Trim(globalPrompt)

\* ocrTextPrompt: the instruction of the recognition call
OcrPrompt(targetLanguage, promptContext) ==
    IF IsChinese(targetLanguage)
    THEN <<ChineseOcrInstruction>>
             \o (IF Truthy(promptContext)
                 THEN <<ChineseContextHeading>> \o promptContext ELSE Empty)
    ELSE <<"Identify all text in this manga page and provide the translation in ",
           targetLanguage, ". Format: \"[Position] Original -> Translation\"">>
             \o (IF Truthy(promptContext)
                 THEN <<"\n\nContext you can rely on:\n">> \o promptContext ELSE Empty)

RECURSIVE ConcatTexts(_)
\* for (const part of parts) if (part.text) detectedText += part.text
ConcatTexts(parts) ==
    IF parts = <<>> THEN Empty
    ELSE (IF Truthy(Head(parts).text) THEN Head(parts).text ELSE Empty)
             \o ConcatTexts(Tail(parts))

\* mutant: the message of a thrown recognition error ends up in the listing
DetectedTextOrMessage(ocr) ==
    IF ocr.threw THEN (IF ocr.message = Undefined THEN <<"error">> ELSE ocr.message)
    ELSE IF ocr.response = <<>> THEN Empty
    ELSE ConcatTexts(ocr.response[1])

\* step 1 of translateMangaImage: the listing kept from the recognition call;
\* a thrown error is caught and leaves the empty string
DetectedText(ocr) ==
    IF ocr.threw THEN Empty
    ELSE IF ocr.response = <<>> THEN Empty
    ELSE ConcatTexts(ocr.response[1])

\* the instruction translateMangaImage sends to the image model
TranslatePrompt(targetLanguage, detectedText) ==
    IF IsChinese(targetLanguage)
    THEN <<ChineseInstruction>>
             \o (IF Truthy(detectedText)
                 THEN <<ChineseReferenceHeading>> \o detectedText ELSE Empty)
    ELSE <<"Translate all text in this manga page to ", targetLanguage, ". \n",
           "  Keep the original artwork, character designs, and background exactly the same. \n",
           "  Replace the text inside the speech bubbles, captions, and SFX with natural ",
           targetLanguage, " translation. \n",
           "  Maintain the typography style and font feel of the original manga. \n",
           "  Return only the updated image.">>
             \o (IF Truthy(detectedText)
                 THEN <<"\n\nReference Translations:\n">> \o detectedText ELSE Empty)

\* the instruction regenerateMangaImage sends to the image model
RegeneratePrompt(targetLanguage, referenceText) ==
    IF IsChinese(targetLanguage)
    THEN <<ChineseInstruction>>
             \o (IF Truthy(referenceText)
                 THEN <<ChineseReferenceHeading>> \o referenceText ELSE Empty)
    ELSE <<"Translate all text in this manga page to ", targetLanguage, ".\n",
           "  Keep the original artwork, character designs, and background exactly the same.\n",
           "  Replace the text inside the speech bubbles, captions, and SFX with natural ",
           targetLanguage, " translation.\n",
           "  Maintain the typography style and font feel of the original manga.\n",
           "  Return only the updated image.">>
             \o (IF Truthy(referenceText)
                 THEN <<"\n\nReference Translations:\n">> \o referenceText ELSE Empty)

\* the parts of the first candidate that carry inlineData
ImageParts(parts) == {i \in 1..Len(parts) : parts[i].inlineData # Undefined}

FirstImageData(parts) ==
    parts[CHOOSE i \in ImageParts(parts) : \A j \in ImageParts(parts) : i <= j].inlineData[1]

Failed(msg) == [ok |-> FALSE, message |-> msg, imageUrl |-> Empty]

Returned(url) == [ok |-> TRUE, message |-> Undefined, imageUrl |-> url]

\* mutant: a candidate without an image part yields a data URL with no payload
ReadImageLenient(outcome, mimeType) ==
    IF outcome.threw THEN Failed(outcome.message)
    ELSE IF Len(outcome.response) = 0
    THEN Failed(<<"No response generated from the model.">>)
    ELSE IF ImageParts(outcome.response[1]) # {}
    THEN Returned(DataUrl(mimeType, FirstImageData(outcome.response[1])))
    ELSE Returned(DataUrl(mimeType, ""))

\* the try block around generateContent: the data URL returned, or the
\* message of the error that reaches the catch block
ReadImage(outcome, mimeType) ==
    IF outcome.threw THEN Failed(outcome.message)
    ELSE IF Len(outcome.response) = 0
    THEN Failed(<<"No response generated from the model.">>)
    ELSE IF ImageParts(outcome.response[1]) # {}
    THEN Returned(DataUrl(mimeType, FirstImageData(outcome.response[1])))
    ELSE Failed(<<"The model did not return an image part.">>)

\* mutant: every thrown error is taken for a key problem
IsKeyProblemAnyMessage(message) == message # Undefined

\* the catch block: the phrase that marks a key problem
IsKeyProblem(message) == MessageIncludes(message, AuthPhrase)

\* the catch block: the error rethrown to the caller
Rethrow(message, fallback) ==
    IF IsKeyProblem(message) THEN Failed(ApiKeyError)
    ELSE Failed(OrElse(message, fallback))

\* what the image step of translateMangaImage gives its caller
TranslateImage(outcome, mimeType) ==
    IF ReadImage(outcome, mimeType).ok THEN ReadImage(outcome, mimeType)
    ELSE Rethrow(ReadImage(outcome, mimeType).message, <<"Failed to translate image.">>)

\* what regenerateMangaImage gives its caller
RegenerateImage(outcome, mimeType) ==
    IF ReadImage(outcome, mimeType).ok THEN ReadImage(outcome, mimeType)
    ELSE Rethrow(ReadImage(outcome, mimeType).message, <<"Failed to regenerate image.">>)

\* the rejection of fileToBase64: reader.onerror hands over the event, which
\* has no message
ReadError == Failed(Undefined)

\* --------------------------------------------------------------- App state
VARIABLES
    images,          \* useState<MangaImage[]>: the queue
    targetLanguage,  \* useState: the target language
    hasKey,          \* useState: FALSE shows the key prompt instead of the page
    apiKey,          \* useState: the text of the key input
    storedKey,       \* localStorage gemini_api_key, Empty when absent
    isProcessing,    \* useState: a batch run is in progress
    editingId,       \* useState: the item of the open edit dialog, NoId when closed
    editingText,     \* useState: the text of the edit dialog
    isRegenerating,  \* useState: a regeneration is in progress
    run,             \* the processImages call in flight and what its closure holds
    regens,          \* the Regenerate handlers in flight and what their closures hold
    nextId,          \* the number of ids handed out so far, plus one
    used,            \* how often the session has started a batch run, opened the
                     \* edit dialog and pressed Regenerate
    globalPrompt,    \* useState: the global context, mirrored in localStorage
    revoked,         \* the object URLs of the browser released by revokeObjectURL
    interrupted,     \* history: the item at which a batch run was last halted by
                     \* a key error, NoId when none was
    keyRejected,     \* history: a key error was caught and no key was saved since
    regenLog,        \* history: what each successful regeneration asked and stored
    lastEvent        \* history: the handler step taken last and what it was given

vars ==
    <<images, targetLanguage, hasKey, apiKey, storedKey, isProcessing, editingId,
      editingText, isRegenerating, run, regens, nextId, used,
      globalPrompt, revoked, interrupted, keyRejected, regenLog, lastEvent>>

NoId == 0

\* LANGUAGE_OPTIONS, of which the values Chinese and one other are kept
LanguageValues == {"Chinese", "English"}

\* what the user can type into the key input
KeyInputs == {<<" ">>, <<"k2", " ">>}

\* what the user can type into the global context
GlobalPrompts == {Empty, <<"ctx">>}

\* what the user can type into the edit dialog
EditTexts == {Empty, <<"t2">>}

NoOutcome == Responded(NoResponse)

\* history: a handler step, the item it is about, what the remote model gave it,
\* the remote calls <<item id, model>> it sent and, for the step that ends a
\* translateMangaImage call, how the recognition call of that item had settled,
\* for the step that ends a regenerateMangaImage call, the text it was given,
\* for a download, the archive handed to the browser
Event(op, id, outcome, calls) ==
    [op |-> op, id |-> id, outcome |-> outcome, calls |-> calls, ocr |-> NoOutcome,
     text |-> Empty, archive |-> {}]

\* a step of the user interface that settles nothing
Quiet == Event("ui", NoId, NoOutcome, {})

\* URL.createObjectURL(file): a blob URL the browser has not handed out before;
\* n is the number of the call
CreateObjectURL(n) == <<"blob:", n>>

\* a MangaImage as handleFileUpload creates it
NewImage(id, file) ==
    [id |-> id, file |-> file, previewUrl |-> CreateObjectURL(id), status |-> "idle",
     translatedUrl |-> Undefined, ocrText |-> Undefined, error |-> Undefined]

Ids(imgs) == {imgs[j].id : j \in 1..Len(imgs)}

\* images.find(i => i.id === id): the index of the first such item, or 0
FindIndex(imgs, id) ==
    IF \E j \in 1..Len(imgs) : imgs[j].id = id
    THEN CHOOSE j \in 1..Len(imgs) :
             imgs[j].id = id /\ \A k \in 1..(j - 1) : imgs[k].id # id
    ELSE 0

\* mutant: the item set to processing is moved to the head of the queue
MarkProcessingFirst(imgs, id) ==
    [j \in 1..Len(SelectSeq(imgs, LAMBDA img : img.id = id)) |->
        [SelectSeq(imgs, LAMBDA img : img.id = id)[j] EXCEPT !.status = "processing"]]
        \o SelectSeq(imgs, LAMBDA img : img.id # id)

\* prev.map(item => item.id === id ? { ...item, status: 'processing' } : item)
MarkProcessing(imgs, id) ==
    [j \in 1..Len(imgs) |->
        IF imgs[j].id = id THEN [imgs[j] EXCEPT !.status = "processing"] ELSE imgs[j]]

\* { ...item, status: 'completed', translatedUrl: imageUrl, ocrText }
MarkTranslated(imgs, id, imageUrl, ocrText) ==
    [j \in 1..Len(imgs) |->
        IF imgs[j].id = id
        THEN [imgs[j] EXCEPT !.status = "completed", !.translatedUrl = imageUrl,
                             !.ocrText = ocrText]
        ELSE imgs[j]]

\* { ...it, status: 'completed', translatedUrl: newUrl,
\*   ocrText: editingText || it.ocrText }
MarkRegenerated(imgs, id, newUrl, text) ==
    [j \in 1..Len(imgs) |->
        IF imgs[j].id = id
        THEN [imgs[j] EXCEPT !.status = "completed", !.translatedUrl = newUrl,
                             !.ocrText = OrElse(text, imgs[j].ocrText)]
        ELSE imgs[j]]

\* { ...item, status: 'error', error: error.message }
MarkError(imgs, id, message) ==
    [j \in 1..Len(imgs) |->
        IF imgs[j].id = id
        THEN [imgs[j] EXCEPT !.status = "error", !.error = message]
        ELSE imgs[j]]

\* mutant: the catch blocks of the App look for another message
IsApiKeyErrorOther(message) == message = <<"API_KEY_INVALID">>

\* error.message === "API_KEY_ERROR" in the catch blocks of the App
IsApiKeyError(message) == message = ApiKeyError

\* no processImages call in flight; ocr (how the recognition call of the current
\* item settled), calls (the remote calls sent so far), alone (no Regenerate
\* handler was in flight when the run started), pending (the remote calls
\* sent and not yet settled) attempts (the ids of the items the run has set
\* to processing, in that order), context (the global context when the run
\* started) and ocrPrompt (the instruction of the recognition call of the
\* current item) are history
IdleRun ==
    [pc |-> "idle", snap |-> <<>>, i |-> 0, apiKey |-> Empty, targetLanguage |-> "",
     data |-> Empty, mimeType |-> "", detectedText |-> Empty, prompt |-> Empty,
     ocr |-> NoOutcome, calls |-> {}, alone |-> TRUE, pending |-> {},
     attempts |-> <<>>, context |-> Empty, ocrPrompt |-> Empty]

\* the page is rendered (not the key prompt)
PageShown == hasKey = TRUE

\* the edit dialog is rendered: its backdrop covers the page
DialogShown == PageShown /\ editingId # NoId

\* the controls of the page can be reached
PageFree == PageShown /\ editingId = NoId

Init ==
    /\ images = <<>>
    /\ targetLanguage = "Chinese"
    /\ storedKey = Empty
    /\ apiKey = OrElse(storedKey, Empty)
    /\ hasKey = Truthy(storedKey)
    /\ isProcessing = FALSE
    /\ editingId = NoId
    /\ editingText = Empty
    /\ isRegenerating = FALSE
    /\ run = IdleRun
    /\ regens = <<>>
    /\ nextId = 1
    /\ used = [runs |-> 0, edits |-> 0, regens |-> 0]
    /\ globalPrompt = Empty
    /\ revoked = {}
    /\ interrupted = NoId
    /\ keyRejected = FALSE
    /\ regenLog = <<>>
    /\ lastEvent = Quiet

\* ------------------------------------------------------- queue and the key
\* handleFileUpload: the files picked become idle items at the end of the queue.
\* Math.random ids are taken to be distinct: each upload gets the next number
HandleFileUpload(files) ==
    /\ PageFree
    /\ nextId + Len(files) - 1 <= (IF used.edits > 0 THEN MaxEditUploads ELSE MaxUploads)
    /\ Truthy(globalPrompt) => nextId + Len(files) - 1 <= MaxContextUploads
    /\ images' = images \o [j \in 1..Len(files) |-> NewImage(nextId + j - 1, files[j])]
    /\ nextId' = nextId + Len(files)
    /\ lastEvent' = Quiet
    /\ UNCHANGED <<targetLanguage, hasKey, apiKey, storedKey, isProcessing, editingId,
                   editingText, isRegenerating, run, regens, used, regenLog,
                   globalPrompt, revoked, interrupted, keyRejected>>

\* mutant: the browser keeps the URL
RevokeNothing(store, url) == store

\* URL.revokeObjectURL(url): a blob URL is released; any other string (a data
\* URL) is not in the URL store of the browser and nothing happens
RevokeObjectURL(store, url) ==
    IF url # Undefined /\ url # Empty /\ Head(url) = "blob:" THEN store \cup {url} ELSE store

RECURSIVE RevokeAll(_, _)
\* images.forEach(img => { revoke img.previewUrl; if (img.translatedUrl) revoke it })
RevokeAll(store, imgs) ==
    IF imgs = <<>> THEN store
    ELSE RevokeAll(
             IF Truthy(Head(imgs).translatedUrl)
             THEN RevokeObjectURL(RevokeObjectURL(store, Head(imgs).previewUrl),
                                  Head(imgs).translatedUrl)
             ELSE RevokeObjectURL(store, Head(imgs).previewUrl),
             Tail(imgs))

\* the REMOVE button of an item in error, or the bin button of the hover overlay
CanRemove(img) ==
    \/ img.status = "error"
    \/ ~isProcessing /\ img.status # "processing"

\* removeImage
RemoveImage(id) ==
    /\ PageFree
    /\ FindIndex(images, id) # 0
    /\ CanRemove(images[FindIndex(images, id)])
    /\ revoked' = RevokeObjectURL(revoked, images[FindIndex(images, id)].previewUrl)
    /\ images' = SelectSeq(images, LAMBDA img : img.id # id)
    /\ lastEvent' = Quiet
    /\ UNCHANGED <<targetLanguage, hasKey, apiKey, storedKey, isProcessing, editingId,
                   editingText, isRegenerating, run, regens, nextId, used, regenLog,
                   globalPrompt, interrupted, keyRejected>>

\* clearAll, offered while no batch runs
ClearAll ==
    /\ PageFree
    /\ Len(images) > 0
    /\ ~isProcessing
    /\ revoked' = RevokeAll(revoked, images)
    /\ images' = <<>>
    /\ lastEvent' = Quiet
    /\ UNCHANGED <<targetLanguage, hasKey, apiKey, storedKey, isProcessing, editingId,
                   editingText, isRegenerating, run, regens, nextId, used, regenLog,
                   globalPrompt, interrupted, keyRejected>>

\* the language select, disabled during a batch
SetTargetLanguage(value) ==
    /\ PageFree
    /\ ~isProcessing
    /\ value # targetLanguage
    /\ targetLanguage' = value
    /\ lastEvent' = Quiet
    /\ UNCHANGED <<images, hasKey, apiKey, storedKey, isProcessing, editingId,
                   editingText, isRegenerating, run, regens, nextId, used, regenLog,
                   globalPrompt, revoked, interrupted, keyRejected>>

\* typing into the global context of the page
SetGlobalPrompt(value) ==
    /\ PageFree
    /\ value # globalPrompt
    /\ Truthy(value) => (used.edits <= MaxContextEdits /\ nextId - 1 <= MaxContextUploads)
    /\ globalPrompt' = value
    /\ lastEvent' = Quiet
    /\ UNCHANGED <<images, targetLanguage, hasKey, apiKey, storedKey, isProcessing,
                   editingId, editingText, isRegenerating, run, regens, nextId, used,
                   regenLog, revoked, interrupted, keyRejected>>

\* handleSelectKey: the Change Key button opens the key prompt
HandleSelectKey ==
    /\ PageFree
    /\ hasKey' = FALSE
    /\ lastEvent' = Quiet
    /\ UNCHANGED <<images, targetLanguage, apiKey, storedKey, isProcessing, editingId,
                   editingText, isRegenerating, run, regens, nextId, used, regenLog,
                   globalPrompt, revoked, interrupted, keyRejected>>

\* typing into the key input of the key prompt
SetApiKey(value) ==
    /\ hasKey = FALSE
    /\ value # apiKey
    /\ apiKey' = value
    /\ lastEvent' = Quiet
    /\ UNCHANGED <<images, targetLanguage, hasKey, storedKey, isProcessing, editingId,
                   editingText, isRegenerating, run, regens, nextId, used, regenLog,
                   globalPrompt, revoked, interrupted, keyRejected>>

\* handleSaveKey: a key that is not blank is stored trimmed and the page shown
HandleSaveKey ==
    /\ hasKey = FALSE
    /\ IF Truthy(Trim(apiKey))
       THEN storedKey' = Trim(apiKey) /\ hasKey' = TRUE /\ keyRejected' = FALSE
       ELSE UNCHANGED <<storedKey, hasKey, keyRejected>>
    /\ lastEvent' = Event("handleSaveKey", NoId, NoOutcome, {})
    /\ UNCHANGED <<images, targetLanguage, apiKey, isProcessing, editingId,
                   editingText, isRegenerating, run, regens, nextId, used, regenLog,
                   globalPrompt, revoked, interrupted>>

\* --------------------------------------------------------- downloadAllAsZip
RECURSIVE SplitDot(_)
\* s.split('.'): the segments of s between its dots
SplitDot(s) ==
    IF IndexOf(s, ".") = 0 THEN <<s>>
    ELSE <<SubSeq(s, 1, IndexOf(s, ".") - 1)>>
             \o SplitDot(SubSeq(s, IndexOf(s, ".") + 1, Len(s)))

\* img.file.name.split('.').pop() || 'png'
Extension(name) == OrElse(SplitDot(name)[Len(SplitDot(name))], <<"png">>)

\* `translated_${img.file.name.split('.')[0]}.${extension}`
EntryName(name) == <<"translated_">> \o SplitDot(name)[1] \o <<".">> \o Extension(name)

\* the entry zip.file is called with for an item; id (the item it was built
\* from) is history
Entry(img) ==
    [name |-> EntryName(img.file.name), data |-> SplitComma1(img.translatedUrl),
     id |-> img.id]

\* zip.file(name, data): an entry of that name is replaced
ZipFile(zip, entry) == {e \in zip : e.name # entry.name} \cup {entry}

RECURSIVE ZipAll(_, _)
\* for (const img of completedImages) zip.file(...)
ZipAll(zip, imgs) ==
    IF imgs = <<>> THEN zip ELSE ZipAll(ZipFile(zip, Entry(Head(imgs))), Tail(imgs))

\* images.filter(img => img.translatedUrl)
CompletedImages(imgs) == SelectSeq(imgs, LAMBDA img : Truthy(img.translatedUrl))

\* stats.completed
StatsCompleted(imgs) == Len(SelectSeq(imgs, LAMBDA img : img.status = "completed"))

\* the download button, shown when an item is completed and no batch runs
DownloadAllAsZip ==
    /\ PageFree
    /\ StatsCompleted(images) > 0
    /\ ~isProcessing
    /\ lastEvent' = [Event("downloadAllAsZip", NoId, NoOutcome, {})
                         EXCEPT !.archive = ZipAll({}, CompletedImages(images))]
    /\ UNCHANGED <<images, targetLanguage, hasKey, apiKey, storedKey, isProcessing,
                   editingId, editingText, isRegenerating, run, regens, nextId, used,
                   regenLog, globalPrompt, revoked, interrupted, keyRejected>>

\* ------------------------------------------------------------ processImages
\* mutant: the loop skips nothing
NextIndexNoSkip(snap, from) == IF from <= Len(snap) THEN from ELSE 0

\* mutant: the loop takes the last item that is not completed
NextIndexFromEnd(snap, from) ==
    IF \E j \in from..Len(snap) : snap[j].status # "completed"
    THEN CHOOSE j \in from..Len(snap) :
             /\ snap[j].status # "completed"
             /\ \A k \in (j + 1)..Len(snap) : snap[k].status = "completed"
    ELSE 0

\* mutant: the loop also skips the items it sees in processing
NextIndexSkipsProcessing(snap, from) ==
    IF \E j \in from..Len(snap) : snap[j].status \notin {"completed", "processing"}
    THEN CHOOSE j \in from..Len(snap) :
             /\ snap[j].status \notin {"completed", "processing"}
             /\ \A k \in from..(j - 1) : snap[k].status \in {"completed", "processing"}
    ELSE 0

\* the first position from `from` on whose item the closure saw not completed,
\* or 0: the loop skips the others
NextIndex(snap, from) ==
    IF \E j \in from..Len(snap) : snap[j].status # "completed"
    THEN CHOOSE j \in from..Len(snap) :
             /\ snap[j].status # "completed"
             /\ \A k \in from..(j - 1) : snap[k].status = "completed"
    ELSE 0

\* the loop from position `from` up to its next await (the file read of the next
\* item to process, marked processing first) or to its end
ContinueLoop(imgs, r, from) ==
    IF NextIndex(r.snap, from) = 0
    THEN /\ images' = imgs
         /\ run' = IdleRun
         /\ isProcessing' = FALSE
    ELSE /\ images' = MarkProcessing(imgs, r.snap[NextIndex(r.snap, from)].id)
         /\ run' = [r EXCEPT !.pc = "read", !.i = NextIndex(r.snap, from),
                             !.data = Empty, !.mimeType = "",
                             !.detectedText = Empty, !.prompt = Empty,
                             !.ocr = NoOutcome, !.ocrPrompt = Empty,
                             !.attempts = Append(@, r.snap[NextIndex(r.snap, from)].id)]
         /\ isProcessing' = TRUE

\* mutant: Start is taken whatever the queue and the flag
MayStartAlways(imgs, processing) == TRUE

\* the Start button is enabled, and processImages does not return at once:
\* if (images.length === 0 || isProcessing) return
MayStart(imgs, processing) == ~(Len(imgs) = 0 \/ processing)

\* the Start button: processImages up to its first await
ProcessImages ==
    /\ PageFree
    /\ MayStart(images, isProcessing)
    /\ used.runs < MaxRuns
    /\ used' = [used EXCEPT !.runs = @ + 1]
    /\ ContinueLoop(images,
                    [IdleRun EXCEPT !.snap = images, !.apiKey = apiKey,
                                    !.targetLanguage = targetLanguage,
                                    !.alone = (regens = <<>>),
                                    !.context = globalPrompt], 1)
    /\ lastEvent' = Event("processImages", NoId, NoOutcome, {})
    /\ UNCHANGED <<targetLanguage, hasKey, apiKey, storedKey, editingId, editingText,
                   isRegenerating, regens, nextId, regenLog, globalPrompt, revoked,
                   interrupted, keyRejected>>

\* mutant: the call is not awaited
ResolveNever(pending, call) == pending

\* await: the handler goes on when the call it sent has settled
Resolve(pending, call) == pending \ {call}

\* the run once the call it awaits for the current item has settled
Awaited(r, model) ==
    [r EXCEPT !.pending = Resolve(@, <<r.snap[r.i].id, model>>)]

\* the item the run is working on, as the closure holds it
Current == run.snap[run.i]

\* the ids of the items behind the position of the run in its closure
Behind == {run.snap[j].id : j \in (run.i + 1)..Len(run.snap)}

\* translateMangaImage(data, mimeType, targetLanguage, apiKey): the call passes
\* no fifth argument, so the parameter globalPrompt is undefined
GlobalPromptArgument == Undefined

\* fileToBase64 resolves: translateMangaImage starts and sends the recognition
\* request
RunReadDone ==
    /\ run.pc = "read"
    /\ run' = [run EXCEPT !.pc = "ocr", !.data = FileToBase64(Current.file).data,
                          !.mimeType = FileToBase64(Current.file).mimeType,
                          !.ocrPrompt = OcrPrompt(run.targetLanguage,
                                                  PromptContext(GlobalPromptArgument)),
                          !.calls = @ \cup {<<Current.id, "ocr">>},
                          !.pending = @ \cup {<<Current.id, "ocr">>}]
    /\ lastEvent' = Event("runReadDone", Current.id, NoOutcome, {<<Current.id, "ocr">>})
    /\ UNCHANGED <<images, targetLanguage, hasKey, apiKey, storedKey, isProcessing,
                   editingId, editingText, isRegenerating, regens, nextId, used, regenLog,
                   globalPrompt, revoked, interrupted, keyRejected>>

\* mutant: the halt on a key error empties the queue
RunCatchDiscards(failure) ==
    IF IsApiKeyError(failure.message)
    THEN /\ hasKey' = FALSE
         /\ isProcessing' = FALSE
         /\ run' = IdleRun
         /\ interrupted' = Current.id
         /\ keyRejected' = TRUE
         /\ images' = <<>>
    ELSE /\ ContinueLoop(MarkError(images, Current.id, failure.message),
                         Awaited(run, "inpaint"), run.i + 1)
         /\ UNCHANGED <<hasKey, interrupted, keyRejected>>

\* mutant: the halt on a key error leaves isProcessing set
RunCatchKeepsProcessing(failure) ==
    IF IsApiKeyError(failure.message)
    THEN /\ hasKey' = FALSE
         /\ isProcessing' = TRUE
         /\ run' = IdleRun
         /\ interrupted' = Current.id
         /\ keyRejected' = TRUE
         /\ UNCHANGED images
    ELSE /\ ContinueLoop(MarkError(images, Current.id, failure.message),
                         Awaited(run, "inpaint"), run.i + 1)
         /\ UNCHANGED <<hasKey, interrupted, keyRejected>>

\* the catch block of processImages, given the error thrown for the current item
RunCatch(failure) ==
    IF IsApiKeyError(failure.message)
    THEN /\ hasKey' = FALSE
         /\ isProcessing' = FALSE
         /\ run' = IdleRun
         /\ interrupted' = Current.id
         /\ keyRejected' = TRUE
         /\ UNCHANGED images
    ELSE /\ ContinueLoop(MarkError(images, Current.id, failure.message),
                         Awaited(run, "inpaint"), run.i + 1)
         /\ UNCHANGED <<hasKey, interrupted, keyRejected>>

\* fileToBase64 rejects
RunReadFailed ==
    /\ run.pc = "read"
    /\ RunCatch(ReadError)
    /\ lastEvent' = Event("runReadFailed", Current.id, NoOutcome, {})
    /\ UNCHANGED <<targetLanguage, apiKey, storedKey, editingId, editingText,
                   isRegenerating, regens, nextId, used, regenLog, globalPrompt, revoked>>

\* the request sent to the image model: the image, its media type, the instruction
Request(data, mimeType, prompt) == <<data, mimeType, prompt>>

\* the recognition call settles (a thrown error is swallowed): the instruction is
\* built and the inpainting request sent
RunOcrDone(outcome) ==
    /\ run.pc = "ocr"
    /\ run' = [Awaited(run, "ocr") EXCEPT
                          !.pc = "inpaint", !.ocr = outcome,
                          !.detectedText = DetectedText(outcome),
                          !.prompt = TranslatePrompt(run.targetLanguage,
                                                     DetectedText(outcome)),
                          !.calls = @ \cup {<<Current.id, "inpaint">>},
                          !.pending = @ \cup {<<Current.id, "inpaint">>}]
    /\ lastEvent' = Event("runOcrDone", Current.id, outcome, {<<Current.id, "inpaint">>})
    /\ UNCHANGED <<images, targetLanguage, hasKey, apiKey, storedKey, isProcessing,
                   editingId, editingText, isRegenerating, regens, nextId, used, regenLog,
                   globalPrompt, revoked, interrupted, keyRejected>>

\* the inpainting call settles: the item is completed, or the catch block runs
RunInpaintDone(outcome) ==
    /\ run.pc = "inpaint"
    /\ IF TranslateImage(outcome, run.mimeType).ok
       THEN /\ ContinueLoop(MarkTranslated(images, Current.id,
                                           TranslateImage(outcome, run.mimeType).imageUrl,
                                           run.detectedText),
                            Awaited(run, "inpaint"), run.i + 1)
            /\ UNCHANGED <<hasKey, interrupted, keyRejected>>
       ELSE RunCatch(TranslateImage(outcome, run.mimeType))
    /\ lastEvent' = [Event("runInpaintDone", Current.id, outcome, {}) EXCEPT !.ocr = run.ocr]
    /\ UNCHANGED <<targetLanguage, apiKey, storedKey, editingId, editingText,
                   isRegenerating, regens, nextId, used, regenLog, globalPrompt, revoked>>

\* ------------------------------------------------- edit dialog, regenerate
\* the pencil button of a completed item, offered while no batch runs
OpenEdit(id) ==
    /\ PageFree
    /\ ~isProcessing
    /\ FindIndex(images, id) # 0
    /\ images[FindIndex(images, id)].status = "completed"
    /\ used.edits < MaxEdits
    /\ nextId - 1 <= MaxEditUploads
    /\ Truthy(globalPrompt) => used.edits < MaxContextEdits
    /\ used' = [used EXCEPT !.edits = @ + 1]
    /\ editingId' = id
    /\ editingText' = OrElse(images[FindIndex(images, id)].ocrText, Empty)
    /\ lastEvent' = Quiet
    /\ UNCHANGED <<images, targetLanguage, hasKey, apiKey, storedKey, isProcessing,
                   isRegenerating, run, regens, nextId, regenLog, globalPrompt, revoked,
                   interrupted, keyRejected>>

\* typing into the textarea of the dialog, disabled while regenerating
SetEditingText(value) ==
    /\ DialogShown
    /\ ~isRegenerating
    /\ value # editingText
    /\ editingText' = value
    /\ lastEvent' = Quiet
    /\ UNCHANGED <<images, targetLanguage, hasKey, apiKey, storedKey, isProcessing,
                   editingId, isRegenerating, run, regens, nextId, used, regenLog,
                   globalPrompt, revoked, interrupted, keyRejected>>

\* Cancel, the close button or the backdrop, all without effect while regenerating
CloseEdit ==
    /\ DialogShown
    /\ ~isRegenerating
    /\ editingId' = NoId
    /\ lastEvent' = Quiet
    /\ UNCHANGED <<images, targetLanguage, hasKey, apiKey, storedKey, isProcessing,
                   editingText, isRegenerating, run, regens, nextId, used, regenLog,
                   globalPrompt, revoked, interrupted, keyRejected>>

\* a Regenerate handler waiting for its file read, with what its closure holds
NewRegen(img) ==
    [pc |-> "read", id |-> editingId, text |-> editingText, file |-> img.file,
     apiKey |-> apiKey, targetLanguage |-> targetLanguage,
     data |-> Empty, mimeType |-> "", prompt |-> Empty]

\* the Regenerate button (never disabled): the handler up to its first await
RegenerateClick ==
    /\ DialogShown
    /\ used.regens < MaxRegens
    /\ used' = [used EXCEPT !.regens = @ + 1]
    /\ IF FindIndex(images, editingId) = 0
       THEN /\ isRegenerating' = FALSE
            /\ UNCHANGED <<images, regens>>
       ELSE /\ isRegenerating' = TRUE
            /\ images' = MarkProcessing(images, editingId)
            /\ regens' = Append(regens, NewRegen(images[FindIndex(images, editingId)]))
    /\ lastEvent' = Event("regenerateClick", editingId, NoOutcome, {})
    /\ UNCHANGED <<targetLanguage, hasKey, apiKey, storedKey, isProcessing, editingId,
                   editingText, run, nextId, regenLog, globalPrompt, revoked, interrupted,
                   keyRejected>>

Without(seq, k) == [j \in 1..(Len(seq) - 1) |-> IF j < k THEN seq[j] ELSE seq[j + 1]]

\* mutant: regenerateMangaImage recognises the text first
RegenerateCallsWithOcr(id) == {<<id, "ocr">>, <<id, "inpaint">>}

\* the remote calls regenerateMangaImage makes for an item
RegenerateCalls(id) == {<<id, "inpaint">>}

\* editingText || '' : the reference text handed to regenerateMangaImage
ReferenceText(text) == OrElse(text, Empty)

\* fileToBase64 resolves in handler k: regenerateMangaImage builds the instruction
\* and sends the inpainting request
RegenReadDone(k) ==
    /\ regens[k].pc = "read"
    /\ regens' = [regens EXCEPT ![k] =
           [regens[k] EXCEPT
               !.pc = "inpaint",
               !.data = FileToBase64(regens[k].file).data,
               !.mimeType = FileToBase64(regens[k].file).mimeType,
               !.prompt = RegeneratePrompt(regens[k].targetLanguage,
                                           ReferenceText(regens[k].text))]]
    /\ lastEvent' = Event("regenReadDone", regens[k].id, NoOutcome, RegenerateCalls(regens[k].id))
    /\ UNCHANGED <<images, targetLanguage, hasKey, apiKey, storedKey, isProcessing,
                   editingId, editingText, isRegenerating, run, nextId, used, regenLog,
                   globalPrompt, revoked, interrupted, keyRejected>>

\* mutant: a key error also makes the item an error item
RegenCatchMarksError(op, failure) ==
    /\ IF IsApiKeyError(failure.message)
       THEN /\ hasKey' = FALSE
            /\ editingId' = NoId
            /\ keyRejected' = TRUE
            /\ images' = MarkError(images, op.id, failure.message)
       ELSE /\ images' = MarkError(images, op.id, failure.message)
            /\ UNCHANGED <<hasKey, editingId, keyRejected>>
    /\ isRegenerating' = FALSE

\* the catch and finally blocks of the Regenerate handler
RegenCatch(op, failure) ==
    /\ IF IsApiKeyError(failure.message)
       THEN /\ hasKey' = FALSE
            /\ editingId' = NoId
            /\ keyRejected' = TRUE
            /\ UNCHANGED images
       ELSE /\ images' = MarkError(images, op.id, failure.message)
            /\ UNCHANGED <<hasKey, editingId, keyRejected>>
    /\ isRegenerating' = FALSE

\* fileToBase64 rejects in handler k
RegenReadFailed(k) ==
    /\ regens[k].pc = "read"
    /\ RegenCatch(regens[k], ReadError)
    /\ regens' = Without(regens, k)
    /\ lastEvent' = Event("regenReadFailed", regens[k].id, NoOutcome, {})
    /\ UNCHANGED <<targetLanguage, apiKey, storedKey, isProcessing, editingText, run,
                   nextId, used, regenLog, globalPrompt, revoked, interrupted>>

\* history: a regeneration that returned an image: the source image, language
\* and edited text it was started with, the request it sent, the answer it got
\* and the URL it returned
Regenerated(op, outcome) ==
    [file |-> op.file, targetLanguage |-> op.targetLanguage, text |-> op.text,
     request |-> Request(op.data, op.mimeType, op.prompt), outcome |-> outcome,
     newUrl |-> RegenerateImage(outcome, op.mimeType).imageUrl]

\* the inpainting call of handler k settles
RegenInpaintDone(k, outcome) ==
    /\ regens[k].pc = "inpaint"
    /\ IF RegenerateImage(outcome, regens[k].mimeType).ok
       THEN /\ images' = MarkRegenerated(images, regens[k].id,
                             RegenerateImage(outcome, regens[k].mimeType).imageUrl,
                             regens[k].text)
            /\ editingId' = NoId
            /\ isRegenerating' = FALSE
            /\ regenLog' = Append(regenLog, Regenerated(regens[k], outcome))
            /\ UNCHANGED <<hasKey, keyRejected>>
       ELSE /\ RegenCatch(regens[k], RegenerateImage(outcome, regens[k].mimeType))
            /\ UNCHANGED regenLog
    /\ regens' = Without(regens, k)
    /\ lastEvent' = [Event("regenInpaintDone", regens[k].id, outcome, {})
                         EXCEPT !.text = regens[k].text]
    /\ UNCHANGED <<targetLanguage, apiKey, storedKey, isProcessing, editingText, run,
                   nextId, used, globalPrompt, revoked, interrupted>>

\* ------------------------------------------------------------ specification
\* the file picker hands over one file or several
FilePicks == {<<f>> : f \in Files} \cup {<<f, g>> : f \in Files, g \in Files}

Next ==
    \/ \E files \in FilePicks : HandleFileUpload(files)
    \/ \E id \in Ids(images) : RemoveImage(id)
    \/ ClearAll
    \/ \E value \in LanguageValues : SetTargetLanguage(value)
    \/ \E value \in GlobalPrompts : SetGlobalPrompt(value)
    \/ HandleSelectKey
    \/ \E value \in KeyInputs : SetApiKey(value)
    \/ HandleSaveKey
    \/ DownloadAllAsZip
    \/ ProcessImages
    \/ RunReadDone
    \/ RunReadFailed
    \/ \E outcome \in OcrOutcomes : RunOcrDone(outcome)
    \/ \E outcome \in InpaintOutcomes : RunInpaintDone(outcome)
    \/ \E id \in Ids(images) : OpenEdit(id)
    \/ \E value \in EditTexts : SetEditingText(value)
    \/ CloseEdit
    \/ RegenerateClick
    \/ \E k \in 1..Len(regens) : RegenReadDone(k)
    \/ \E k \in 1..Len(regens) : RegenReadFailed(k)
    \/ \E k \in 1..Len(regens), outcome \in InpaintOutcomes : RegenInpaintDone(k, outcome)

Spec == Init /\ [][Next]_vars

\* ------------------------------------------------------------------ fairness
\* a pending file read or remote call of a handler in flight settles
Settles ==
    \/ RunReadDone
    \/ RunReadFailed
    \/ \E outcome \in OcrOutcomes : RunOcrDone(outcome)
    \/ \E outcome \in InpaintOutcomes : RunInpaintDone(outcome)
    \/ \E k \in 1..Len(regens) : RegenReadDone(k)
    \/ \E k \in 1..Len(regens) : RegenReadFailed(k)
    \/ \E k \in 1..Len(regens), outcome \in InpaintOutcomes : RegenInpaintDone(k, outcome)

\* the handlers that start, feed or follow a batch run or a regeneration: the
\* queue, the key prompt, the batch run, the edit dialog and Regenerate
NextPipeline ==
    \/ \E files \in FilePicks : HandleFileUpload(files)
    \/ \E id \in Ids(images) : RemoveImage(id)
    \/ ClearAll
    \/ \E value \in KeyInputs : SetApiKey(value)
    \/ HandleSaveKey
    \/ ProcessImages
    \/ \E id \in Ids(images) : OpenEdit(id)
    \/ \E value \in EditTexts : SetEditingText(value)
    \/ CloseEdit
    \/ RegenerateClick
    \/ Settles

\* every file read and every remote call resolves or rejects in the end, and
\* the handler that awaits it goes on
SpecFair == Init /\ [][NextPipeline]_vars /\ WF_vars(Settles)

\* ---------------------------------------------- the ids as Math.random draws
\* the strings Math.random().toString(36).substr(2, 9) can give, of which two
\* are kept
IdSpace == {1, 2}

\* the draws of one upload, one per file
IdDraws == {<<a>> : a \in IdSpace} \cup {<<a, b>> : a \in IdSpace, b \in IdSpace}

\* handleFileUpload with the id of each new item as Math.random gives it:
\* nothing compares a draw with the ids of the queue or with the other draws
HandleFileUploadDrawn(files, ids) ==
    /\ PageFree
    /\ Len(ids) = Len(files)
    /\ nextId + Len(files) - 1 <= MaxUploads
    /\ images' = images \o [j \in 1..Len(files) |->
                      [NewImage(ids[j], files[j]) EXCEPT
                          !.previewUrl = CreateObjectURL(nextId + j - 1)]]
    /\ nextId' = nextId + Len(files)
    /\ lastEvent' = Quiet
    /\ UNCHANGED <<targetLanguage, hasKey, apiKey, storedKey, isProcessing, editingId,
                   editingText, isRegenerating, run, regens, used, regenLog,
                   globalPrompt, revoked, interrupted, keyRejected>>

\* the queue, the key prompt and the batch run, with drawn ids
NextDrawnIds ==
    \/ \E files \in FilePicks, ids \in IdDraws : HandleFileUploadDrawn(files, ids)
    \/ \E id \in Ids(images) : RemoveImage(id)
    \/ ClearAll
    \/ \E value \in KeyInputs : SetApiKey(value)
    \/ HandleSaveKey
    \/ ProcessImages
    \/ RunReadDone
    \/ RunReadFailed
    \/ \E outcome \in OcrOutcomes : RunOcrDone(outcome)
    \/ \E outcome \in InpaintOutcomes : RunInpaintDone(outcome)

SpecDrawnIds == Init /\ [][NextDrawnIds]_vars

\* ------------------------------------- the remote model with any message
\* the messages of ThrownMessages and one more text the remote service is free
\* to send: the text the service functions use for their own key error
ThrownMessagesAny == ThrownMessages \cup {ApiKeyError}

InpaintOutcomesAny ==
    {Threw(m) : m \in ThrownMessagesAny} \cup {Responded(r) : r \in InpaintResponses}

\* the queue, the key prompt and the batch run, the inpainting call failing
\* with any message
NextAnyMessage ==
    \/ \E files \in FilePicks : HandleFileUpload(files)
    \/ \E id \in Ids(images) : RemoveImage(id)
    \/ ClearAll
    \/ \E value \in KeyInputs : SetApiKey(value)
    \/ HandleSaveKey
    \/ ProcessImages
    \/ RunReadDone
    \/ RunReadFailed
    \/ \E outcome \in OcrOutcomes : RunOcrDone(outcome)
    \/ \E outcome \in InpaintOutcomesAny : RunInpaintDone(outcome)

SpecAnyMessage == Init /\ [][NextAnyMessage]_vars

\* ------------------------------------------------------------------ claims
\* the item of the queue with the given id (there is one)
Item(imgs, id) == imgs[FindIndex(imgs, id)]

InQueue(imgs, id) == FindIndex(imgs, id) # 0

\* the auth-failure signal: the remote call throws an error whose message holds
\* the phrase
AuthSignal(outcome) ==
    outcome.threw /\ outcome.message # Undefined /\ Includes(outcome.message, AuthPhrase)

\* the inpainting call of the batch run settles in this step
RunInpaintStep == run.pc = "inpaint" /\ lastEvent'.op = "runInpaintDone"

InpaintFailed(outcome) ==
    \/ outcome.threw
    \/ Len(outcome.response) = 0
    \/ \A i \in 1..Len(outcome.response[1]) : outcome.response[1][i].inlineData = Undefined

\* the message of a failed inpainting call of translateMangaImage: the message of
\* the thrown error (the fallback text when it has none), or the text that tells
\* what the response lacks
FailureMessage(outcome) ==
    IF outcome.threw
    THEN (IF outcome.message \in {Undefined, Empty}
          THEN <<"Failed to translate image.">> ELSE outcome.message)
    ELSE IF Len(outcome.response) = 0
    THEN <<"No response generated from the model.">>
    ELSE <<"The model did not return an image part.">>

\* the items the closure of the run saw not completed behind its position
LaterWork == {j \in (run.i + 1)..Len(run.snap) : run.snap[j].status # "completed"}

\* the run moves on to the first item of LaterWork, or ends when there is none
RunGoesOn ==
    IF LaterWork = {}
    THEN run' = IdleRun /\ isProcessing' = FALSE
    ELSE /\ run'.pc = "read"
         /\ run'.i \in LaterWork
         /\ \A j \in LaterWork : run'.i <= j
         /\ run'.snap = run.snap
         /\ isProcessing' = TRUE
         /\ InQueue(images', run.snap[run'.i].id) =>
                Item(images', run.snap[run'.i].id).status = "processing"

\* C2: when the inpainting call of an item of a batch run fails without the
\* auth-failure signal, the item (if still queued) becomes error with the
\* message of the failure, no other item is written except the next one to be
\* processed, hasKey is left as it is, and the run goes on to the next item that
\* was not completed (and so, step by step, to every later one).
C2_OtherFailureMarksItemAndGoesOn ==
    [][(RunInpaintStep /\ InpaintFailed(lastEvent'.outcome)
           /\ ~AuthSignal(lastEvent'.outcome)) =>
          /\ Len(images') = Len(images)
          /\ \A j \in 1..Len(images) :
                IF images[j].id = Current.id
                THEN images'[j] = [images[j] EXCEPT
                                      !.status = "error",
                                      !.error = FailureMessage(lastEvent'.outcome)]
                ELSE \/ images'[j] = images[j]
                     \/ /\ LaterWork # {}
                        /\ images[j].id = run.snap[run'.i].id
                        /\ images'[j] = [images[j] EXCEPT !.status = "processing"]
          /\ hasKey' = hasKey
          /\ RunGoesOn]_vars

\* C2 witness: the quota error of the first of two items has made it an error
\* item that shows the message, and the run is reading the second
C2_Witness ==
    /\ lastEvent.op = "runInpaintDone"
    /\ lastEvent.outcome = Threw(MsgQuota)
    /\ Len(images) = 2
    /\ images[1].id = lastEvent.id
    /\ images[1].status = "error"
    /\ images[1].error = MsgQuota
    /\ images[2].status = "processing"
    /\ run.pc = "read"
    /\ run.i = 2
    /\ hasKey = TRUE
    /\ isProcessing

\* the recognition call of the batch run settles in this step
RunOcrStep == run.pc = "ocr" /\ lastEvent'.op = "runOcrDone"

\* C3: a recognition call that throws, whatever the error, changes no item, does
\* not touch hasKey and lets the run send the inpainting request with an
\* instruction that carries no reference listing; when that inpainting call then
\* returns an image, the item (if still queued) is completed with the returned
\* image and the empty string as its listing, and the run goes on.
C3_RecognitionFailureIsSwallowed ==
    [][/\ (RunOcrStep /\ lastEvent'.outcome.threw) =>
             /\ images' = images
             /\ hasKey' = hasKey
             /\ isProcessing' = isProcessing
             /\ run'.pc = "inpaint"
             /\ run'.i = run.i
             /\ run'.prompt = TranslatePrompt(run.targetLanguage, Empty)
       /\ (RunInpaintStep /\ run.ocr.threw /\ ~InpaintFailed(lastEvent'.outcome)) =>
             /\ Len(images') = Len(images)
             /\ \A j \in 1..Len(images) :
                   images[j].id = Current.id =>
                       /\ images'[j].status = "completed"
                       /\ images'[j].translatedUrl =
                              DataUrl(Current.file.type,
                                      FirstImageData(lastEvent'.outcome.response[1]))
                       /\ images'[j].ocrText = Empty
                       /\ images'[j].error = images[j].error
             /\ hasKey' = hasKey
             /\ RunGoesOn]_vars

\* C3 witness: the recognition call of an item threw the key phrase, the
\* inpainting call returned an image, and the item is completed with that image
\* and an empty listing while the page is still shown
C3_Witness ==
    /\ lastEvent.op = "runInpaintDone"
    /\ lastEvent.ocr = Threw(MsgNotFound)
    /\ ~InpaintFailed(lastEvent.outcome)
    /\ InQueue(images, lastEvent.id)
    /\ Item(images, lastEvent.id).status = "completed"
    /\ Item(images, lastEvent.id).translatedUrl = DataUrl("image/jpeg", "o2")
    /\ Item(images, lastEvent.id).ocrText = Empty
    /\ hasKey = TRUE

\* the inpainting call of the batch run has just returned an image for an item
\* that is still queued
JustTranslated ==
    /\ lastEvent.op = "runInpaintDone"
    /\ ~InpaintFailed(lastEvent.outcome)
    /\ InQueue(images, lastEvent.id)

\* C4: after a translate that succeeds on an item, whatever its history, the
\* item is completed with translatedUrl set and error absent.
C4_TranslatedHasUrlAndNoError ==
    JustTranslated =>
        /\ Item(images, lastEvent.id).status = "completed"
        /\ Item(images, lastEvent.id).translatedUrl # Undefined
        /\ Item(images, lastEvent.id).error = Undefined

\* C5: in every state an item carries a translatedUrl or an ocrText only if it
\* is completed.
C5_OutputOnlyWhenCompleted ==
    \A j \in 1..Len(images) :
        (images[j].translatedUrl # Undefined \/ images[j].ocrText # Undefined) =>
            images[j].status = "completed"

\* the response of the inpainting call has no candidate, or its candidate holds
\* no image part
NoImagePayload(outcome) == ~outcome.threw /\ InpaintFailed(outcome)

\* C6: when the response of the inpainting call of an item of a batch run has no
\* candidate or no image part, the item (if still queued) becomes error with a
\* message that is not empty, hasKey is left as it is and the run goes on,
\* however the recognition call of the item had settled.
C6_NoImagePayloadIsItemFailure ==
    [][(RunInpaintStep /\ NoImagePayload(lastEvent'.outcome)) =>
          /\ Len(images') = Len(images)
          /\ \A j \in 1..Len(images) :
                images[j].id = Current.id =>
                    /\ images'[j].status = "error"
                    /\ images'[j].error \notin {Undefined, Empty}
          /\ hasKey' = hasKey
          /\ RunGoesOn]_vars

\* C6 witness: the recognition call of an item returned a listing, the response
\* of its inpainting call held a text part only, and the item is an error item
\* with a message
C6_Witness ==
    /\ lastEvent.op = "runInpaintDone"
    /\ ~lastEvent.ocr.threw
    /\ DetectedText(lastEvent.ocr) # Empty
    /\ ~lastEvent.outcome.threw
    /\ Len(lastEvent.outcome.response) = 1
    /\ InQueue(images, lastEvent.id)
    /\ Item(images, lastEvent.id).status = "error"
    /\ Truthy(Item(images, lastEvent.id).error)
    /\ hasKey = TRUE

\* C7: in every state every item in error carries an error message that is not
\* empty.
C7_ErrorItemHasMessage ==
    \A j \in 1..Len(images) :
        images[j].status = "error" => images[j].error \notin {Undefined, Empty}

\* a step of the batch run behind its start
RunStep ==
    /\ run.pc # "idle"
    /\ lastEvent'.op \in {"runReadDone", "runReadFailed", "runOcrDone", "runInpaintDone"}

\* the Start button is pressed in this step
StartStep == run.pc = "idle" /\ lastEvent'.op = "processImages"

CompletedIds(imgs) == {imgs[j].id : j \in {i \in 1..Len(imgs) : imgs[i].status = "completed"}}

\* the step writes no item with an id of the set
Untouched(ids) ==
    /\ Len(images') = Len(images)
    /\ \A j \in 1..Len(images) : images[j].id \in ids => images'[j] = images[j]

\* C8: a batch run sends no remote call for an item that is completed when the
\* run starts and writes no such item, neither at its start nor in its later
\* steps; a run started over a queue of completed items only ends at once,
\* having sent no call and changed no item.
C8_CompletedItemsAreSkipped ==
    [][/\ StartStep =>
             /\ Untouched(CompletedIds(images))
             /\ run'.calls = {}
             /\ lastEvent'.calls = {}
             /\ (CompletedIds(images) = Ids(images)) =>
                    (images' = images /\ run' = IdleRun /\ isProcessing' = FALSE)
       /\ RunStep =>
             /\ Untouched(CompletedIds(run.snap))
             /\ \A c \in lastEvent'.calls \cup run'.calls :
                    c[1] \notin CompletedIds(run.snap)]_vars

\* C8 witness: the Start button was pressed over a queue of two completed items
\* and the run is over with the items as they were
C8_Witness ==
    /\ lastEvent.op = "processImages"
    /\ Len(images) = 2
    /\ \A j \in 1..Len(images) : images[j].status = "completed"
    /\ run = IdleRun
    /\ ~isProcessing
    /\ used.runs = 2

\* an inpainting service is deterministic for two regenerations when it answers
\* the same request with the same response
SameAnswer(a, b) == a.request = b.request => a.outcome = b.outcome

SameInput(a, b) ==
    a.file = b.file /\ a.targetLanguage = b.targetLanguage /\ a.text = b.text

\* C9: the steps of a Regenerate handler send no request to the recognition
\* model, and two regenerations with the same text, source image and target
\* language, answered by an inpainting service that is deterministic for them,
\* return the same image URL.
C9_RegenerateSkipsRecognitionAndRepeats ==
    /\ lastEvent.op \in {"regenerateClick", "regenReadDone", "regenReadFailed",
                         "regenInpaintDone"} =>
           \A c \in lastEvent.calls : c[2] # "ocr"
    /\ \A m \in 1..Len(regenLog), n \in 1..Len(regenLog) :
           (SameInput(regenLog[m], regenLog[n]) /\ SameAnswer(regenLog[m], regenLog[n])) =>
               regenLog[m].newUrl = regenLog[n].newUrl

\* C9 witness: two regenerations of the same page with the same text and
\* language have returned, both with the same image
C9_Witness ==
    /\ used.regens = 2
    /\ regens = <<>>
    /\ lastEvent.op = "regenInpaintDone"
    /\ Len(regenLog) = 2
    /\ SameInput(regenLog[1], regenLog[2])
    /\ regenLog[1].text = <<"t2">>
    /\ regenLog[1].outcome = regenLog[2].outcome
    /\ regenLog[1].newUrl = regenLog[2].newUrl
    /\ InQueue(images, lastEvent.id)
    /\ Item(images, lastEvent.id).translatedUrl = regenLog[2].newUrl

\* C10: after a regeneration that succeeds with the text E, the empty string
\* included, the ocrText of the item equals E.
C10_RegeneratedListingIsEditedText ==
    (/\ lastEvent.op = "regenInpaintDone"
     /\ ~InpaintFailed(lastEvent.outcome)
     /\ InQueue(images, lastEvent.id)) =>
        Item(images, lastEvent.id).ocrText = lastEvent.text

\* the ids of the items a pipeline operation is in flight on: the item of the
\* batch run in work, and the item of every Regenerate handler in flight
RunItem == IF run.pc = "idle" THEN {} ELSE {Current.id}

\* C11: at no time are two pipeline operations in flight on the same item: no
\* two Regenerate handlers in flight are about the same item, and none is about
\* the item the batch run is working on.
C11_OneOperationPerItem ==
    /\ \A k \in 1..Len(regens), l \in 1..Len(regens) :
           k # l => regens[k].id # regens[l].id
    /\ \A k \in 1..Len(regens) : regens[k].id \notin RunItem

\* C12: during a batch run at most one remote call sent by the run is unsettled
\* at any time, it is a call for the item the run is working on, and while the
\* run reads the file of an item (the start of its attempt) no call is
\* unsettled: the calls of the next item are sent only after the recognition
\* and the inpainting call of the current one have settled.
C12_OneCallInFlight ==
    /\ Cardinality(run.pending) <= 1
    /\ run.pending \subseteq run.calls
    /\ \A c \in run.pending : c[1] = Current.id
    /\ run.pc \in {"idle", "read"} => run.pending = {}

\* C12 witness: the run awaits the inpainting call of its second item, both
\* calls of the first item having been sent and settled
C12_Witness ==
    /\ run.pc = "inpaint"
    /\ run.i = 2
    /\ run.pending = {<<Current.id, "inpaint">>}
    /\ Cardinality(run.calls) = 4

\* the ids of the items among the first n of the queue the run captured that
\* were not completed, in the order of the queue
TodoUpTo(snap, n) ==
    LET todo == SelectSeq(SubSeq(snap, 1, n), LAMBDA img : img.status # "completed")
    IN  [j \in 1..Len(todo) |-> todo[j].id]

\* a step of the run that ends it, other than the halt on an auth failure
RunEndsStep ==
    /\ RunStep
    /\ run'.pc = "idle"
    /\ ~(lastEvent'.op = "runInpaintDone" /\ AuthSignal(lastEvent'.outcome))

\* C13: the items a batch run has attempted are, at any time, the items up to
\* its position that were not completed when it started, each once and in the
\* order of the queue, and when the run ends without an auth failure they are
\* all such items of the queue; the run sends calls for attempted items only,
\* and the inpainting call of an item only after its recognition call was sent
\* and has settled.
C13_EachOnceInOrder ==
    [][/\ run'.pc # "idle" =>
             /\ run'.attempts = TodoUpTo(run'.snap, run'.i)
             /\ \A c \in run'.calls :
                    /\ \E j \in 1..Len(run'.attempts) : run'.attempts[j] = c[1]
                    /\ c[2] = "inpaint" =>
                           (<<c[1], "ocr">> \in run'.calls \ run'.pending)
       /\ RunEndsStep => run.attempts = TodoUpTo(run.snap, Len(run.snap))]_vars

\* C13 witness: a run over two items has ended after the inpainting call of the
\* second, the first being an error item and the second completed
C13_Witness ==
    /\ lastEvent.op = "runInpaintDone"
    /\ ~AuthSignal(lastEvent.outcome)
    /\ run = IdleRun
    /\ ~isProcessing
    /\ used.runs = 1
    /\ Len(images) = 2
    /\ lastEvent.id = images[2].id
    /\ images[1].status = "error"
    /\ images[2].status = "completed"

\* C14: the archive of a download holds exactly one entry per item that is
\* completed at the time of the download and no entry for any other item: the
\* items its entries were built from are the completed items of the queue, and
\* no entry of one completed item is replaced by the entry of another.
C14_OneEntryPerCompletedItem ==
    lastEvent.op = "downloadAllAsZip" =>
        /\ {e.id : e \in lastEvent.archive} = CompletedIds(images)
        /\ Cardinality(lastEvent.archive) = Cardinality(CompletedIds(images))

\* the position of the last dot of a file name that has one
LastDot(name) == CHOOSE i \in 1..Len(name) :
    name[i] = "." /\ \A j \in (i + 1)..Len(name) : name[j] # "."

\* everything before the last dot, and everything behind it
Stem(name) == SubSeq(name, 1, LastDot(name) - 1)

Suffix(name) == SubSeq(name, LastDot(name) + 1, Len(name))

\* C15: for every completed item the name of its archive entry is translated_
\* followed by the source file name up to its last dot (the stem), a dot and the
\* part behind the last dot (the extension): page.01.jpg gives
\* translated_page.01.jpg.
C15_EntryNameKeepsStem ==
    lastEvent.op = "downloadAllAsZip" =>
        \A e \in lastEvent.archive :
            e.name = <<"translated_">> \o Stem(Item(images, e.id).file.name) \o <<".">>
                         \o Suffix(Item(images, e.id).file.name)

\* the text is empty or holds white space only
Blank(s) == \A i \in 1..Len(s) : s[i] = " "

\* C16: saving a credential whose value is empty or only white space changes
\* neither the stored credential nor hasKey, which stays false: the key prompt
\* is not left.
C16_BlankKeyIsNotSaved ==
    [][(lastEvent'.op = "handleSaveKey" /\ Blank(apiKey)) =>
          /\ storedKey' = storedKey
          /\ hasKey' = hasKey
          /\ hasKey' = FALSE]_vars

\* C16 witness: with a key stored earlier, the user has opened the key prompt,
\* typed a blank and pressed save; the stored key is the old one and the prompt
\* is still shown
C16_Witness ==
    /\ lastEvent.op = "handleSaveKey"
    /\ apiKey = <<" ">>
    /\ storedKey = <<"k2">>
    /\ hasKey = FALSE

\* an auth failure has just been detected, by the batch run or by a Regenerate
\* handler
AuthFailureDetected ==
    /\ lastEvent.op \in {"runInpaintDone", "regenInpaintDone"}
    /\ AuthSignal(lastEvent.outcome)

\* C17: when an auth failure is detected the stored credential is cleared: the
\* slot of the local storage holds no key.
C17_AuthFailureClearsStoredKey == AuthFailureDetected => storedKey = Empty

\* C18: the step in which a batch run detects an auth failure keeps the queue:
\* the same items (id and file) in the same order, every completed item still
\* completed with its translatedUrl and ocrText, every item other than the one
\* whose call failed in the state it had; and while the key prompt is shown
\* afterwards, typing and saving a key change no item.
C18_AuthFailureDiscardsNothing ==
    [][/\ (RunInpaintStep /\ AuthSignal(lastEvent'.outcome)) =>
             /\ Len(images') = Len(images)
             /\ \A j \in 1..Len(images) :
                    /\ images'[j].id = images[j].id
                    /\ images'[j].file = images[j].file
                    /\ images[j].status = "completed" =>
                           /\ images'[j].status = "completed"
                           /\ images'[j].translatedUrl = images[j].translatedUrl
                           /\ images'[j].ocrText = images[j].ocrText
                    /\ images[j].id # Current.id =>
                           images'[j].status = images[j].status
       /\ (hasKey = FALSE /\ lastEvent'.op \in {"ui", "handleSaveKey"}) =>
             images' = images]_vars

\* C18 witness: the run was halted by an auth failure at the second of two
\* items; the first is still completed with its image and listing
C18_Witness ==
    /\ AuthFailureDetected
    /\ lastEvent.op = "runInpaintDone"
    /\ hasKey = FALSE
    /\ Len(images) = 2
    /\ lastEvent.id = images[2].id
    /\ images[1].status = "completed"
    /\ Truthy(images[1].translatedUrl)
    /\ Truthy(images[1].ocrText)
    /\ images[2].status = "processing"

\* the changes of status the life cycle of an item allows
AllowedChanges ==
    {<<"idle", "processing">>, <<"processing", "completed">>, <<"processing", "error">>,
     <<"completed", "processing">>, <<"error", "processing">>}

\* C19: every step that changes the status of an item of the queue changes it
\* from idle to processing, from processing to completed or error, or from
\* completed or error to processing.
C19_StatusChangesFollowLifeCycle ==
    [][\A id \in Ids(images) \cap Ids(images') :
          \/ Item(images', id).status = Item(images, id).status
          \/ <<Item(images, id).status, Item(images', id).status>> \in AllowedChanges]_vars

\* the run has sent the recognition call of the item it is working on
RecognitionSent == run.pc \in {"ocr", "inpaint"}

\* C20: when the global context is not empty at the start of a batch run, the
\* instruction of every recognition call of the run holds that context; when it
\* is empty the instruction is the plain one.
C20_RecognitionCarriesContext ==
    RecognitionSent =>
        IF Truthy(run.context)
        THEN Includes(run.ocrPrompt, run.context)
        ELSE run.ocrPrompt = OcrPrompt(run.targetLanguage, Empty)

\* the preview handles created so far, one per file uploaded
PreviewsCreated == {CreateObjectURL(n) : n \in 1..(nextId - 1)}

\* the preview handles of the items of the queue
PreviewsQueued == {images[j].previewUrl : j \in 1..Len(images)}

\* C21: in every state, after any uploads, removals and clear-all, every
\* preview handle created for an item that is no longer in the queue has been
\* revoked, and no preview handle of an item of the queue has been revoked.
C21_PreviewsReleasedWithItems ==
    /\ PreviewsQueued \subseteq PreviewsCreated
    /\ \A url \in PreviewsCreated : url \in revoked <=> url \notin PreviewsQueued

\* C21 witness: of two pages uploaded the first was removed; its handle is
\* revoked and the handle of the second, still queued, is not
C21_Witness ==
    /\ nextId = 3
    /\ Len(images) = 1
    /\ images[1].id = 2
    /\ revoked = {CreateObjectURL(1)}
    /\ images[1].previewUrl = CreateObjectURL(2)

\* C22: in every state no two items of the queue have the same id.
C22_IdsAreUnique ==
    \A j \in 1..Len(images), k \in 1..Len(images) : j # k => images[j].id # images[k].id

\* what an item is, apart from its state: its id, its file and its preview
Identities(imgs) ==
    [j \in 1..Len(imgs) |-> <<imgs[j].id, imgs[j].file, imgs[j].previewUrl>>]

\* the queue without the items whose preview handle is in the set
Kept(imgs, urls) == SelectSeq(imgs, LAMBDA img : img.previewUrl \notin urls)

RunHalts ==
    /\ hasKey' = FALSE
    /\ run' = IdleRun
    /\ isProcessing' = FALSE

\* C24: a failed inpainting call of a batch run halts the batch and reports
\* the credential invalid (hasKey, true before, is false after) if and only if
\* the message of the underlying error holds the phrase "Requested entity was
\* not found", and then writes no item; every other failure,
\* whatever its message, makes the item an error item, writes no other item
\* except the next one to be processed, and the run goes on.
C24_HaltsIffPhrase ==
    [][(RunInpaintStep /\ InpaintFailed(lastEvent'.outcome)) =>
          /\ hasKey => (RunHalts <=> AuthSignal(lastEvent'.outcome))
          /\ AuthSignal(lastEvent'.outcome) => (RunHalts /\ images' = images)
          /\ ~AuthSignal(lastEvent'.outcome) =>
                /\ Len(images') = Len(images)
                /\ \A j \in 1..Len(images) :
                      IF images[j].id = Current.id
                      THEN /\ images'[j].status = "error"
                           /\ images'[j].id = images[j].id
                      ELSE \/ images'[j] = images[j]
                           \/ /\ LaterWork # {}
                              /\ images[j].id = run.snap[run'.i].id
                              /\ images'[j] = [images[j] EXCEPT !.status = "processing"]
                /\ RunGoesOn]_vars

\* C25: when the recognition call of an item of a batch run fails with the
\* auth-failure signal, the failure is classified as an auth failure as one of
\* the inpainting call is: the run is halted, hasKey is false and isProcessing
\* false.
C25_RecognitionAuthFailureHalts ==
    (lastEvent.op = "runOcrDone" /\ AuthSignal(lastEvent.outcome)) =>
        /\ hasKey = FALSE
        /\ run = IdleRun
        /\ isProcessing = FALSE

\* the ids of the items the run has attempted
Attempted(r) == {r.attempts[j] : j \in 1..Len(r.attempts)}

\* the item at which the last halted run was interrupted is queued and not
\* completed
InterruptedWaits ==
    InQueue(images, interrupted) /\ Item(images, interrupted).status # "completed"

\* C26: an item whose translate was interrupted by an auth failure is retried.
\* A batch run started while that item is queued and not completed (the page
\* with the Start button is shown again only after a key was saved) takes the
\* item into its work and does not end at once; when such a run ends without
\* being halted again it has attempted the interrupted item and every later
\* item it saw not completed; and every attempt whose inpainting call returns
\* an image makes its item, if still queued, completed with that image.
C26_InterruptedItemIsRetried ==
    [][/\ (StartStep /\ InterruptedWaits) =>
             /\ hasKey
             /\ run'.pc = "read"
             /\ \E j \in 1..Len(run'.snap) :
                    run'.snap[j].id = interrupted /\ run'.snap[j].status # "completed"
       /\ RunEndsStep =>
             \A j \in 1..Len(run.snap) :
                 (run.snap[j].id = interrupted /\ run.snap[j].status # "completed") =>
                     \A k \in j..Len(run.snap) :
                         run.snap[k].status # "completed" =>
                             run.snap[k].id \in Attempted(run)
       /\ (RunInpaintStep /\ ~InpaintFailed(lastEvent'.outcome)
              /\ InQueue(images, Current.id)) =>
             /\ Item(images', Current.id).status = "completed"
             /\ Item(images', Current.id).translatedUrl =
                    DataUrl(Current.file.type,
                            FirstImageData(lastEvent'.outcome.response[1]))]_vars

\* C26 witness: the first run was halted by an auth failure at the first of
\* two items; after a key was saved a second run has completed both
C26_Witness ==
    /\ interrupted = 1
    /\ used.runs = 2
    /\ run = IdleRun
    /\ hasKey = TRUE
    /\ lastEvent.op = "runInpaintDone"
    /\ lastEvent.id = 2
    /\ Len(images) = 2
    /\ images[1].id = 1
    /\ images[1].status = "completed"
    /\ images[2].status = "completed"
    /\ images[2].error = Undefined

\* the inpainting call of a Regenerate handler settles in this step
RegenInpaintStep ==
    /\ lastEvent'.op = "regenInpaintDone"
    /\ Len(regens') < Len(regens)

\* the file read of a Regenerate handler fails in this step
RegenReadFailedStep ==
    /\ lastEvent'.op = "regenReadFailed"
    /\ Len(regens') < Len(regens)

\* the message of a failed inpainting call of regenerateMangaImage
RegenFailureMessage(outcome) ==
    IF outcome.threw
    THEN (IF outcome.message \in {Undefined, Empty}
          THEN <<"Failed to regenerate image.">> ELSE outcome.message)
    ELSE IF Len(outcome.response) = 0
    THEN <<"No response generated from the model.">>
    ELSE <<"The model did not return an image part.">>

\* C27: a regeneration ends by the rule of translate. When its inpainting call
\* returns an image the item (if still queued) is completed with the new
\* image and hasKey is left as it is; when the call fails with the
\* auth-failure signal hasKey becomes false and no item is written, so the
\* item is not made an error item; on any other failure of the call the item
\* is an error item with the message of the failure and hasKey is left as it
\* is, and so on a failed file read. In all cases isRegenerating is false
\* afterwards.
C27_RegenerateEndsByTheSameRule ==
    [][/\ RegenInpaintStep =>
             /\ isRegenerating' = FALSE
             /\ ~InpaintFailed(lastEvent'.outcome) =>
                    /\ hasKey' = hasKey
                    /\ InQueue(images, lastEvent'.id) =>
                           /\ Item(images', lastEvent'.id).status = "completed"
                           /\ Item(images', lastEvent'.id).translatedUrl =
                                  DataUrl(Item(images, lastEvent'.id).file.type,
                                          FirstImageData(lastEvent'.outcome.response[1]))
             /\ AuthSignal(lastEvent'.outcome) =>
                    /\ hasKey' = FALSE
                    /\ images' = images
             /\ (InpaintFailed(lastEvent'.outcome) /\ ~AuthSignal(lastEvent'.outcome)) =>
                    /\ hasKey' = hasKey
                    /\ InQueue(images, lastEvent'.id) =>
                           /\ Item(images', lastEvent'.id).status = "error"
                           /\ Item(images', lastEvent'.id).error =
                                  RegenFailureMessage(lastEvent'.outcome)
       /\ RegenReadFailedStep =>
             /\ isRegenerating' = FALSE
             /\ hasKey' = hasKey
             /\ InQueue(images, lastEvent'.id) =>
                    Item(images', lastEvent'.id).status = "error"]_vars

\* C27 witness: the inpainting call of a regeneration failed with the
\* auth-failure signal; the key prompt is shown, the dialog is closed, the flag
\* is cleared and the item is left in processing, not in error
C27_Witness ==
    /\ lastEvent.op = "regenInpaintDone"
    /\ AuthSignal(lastEvent.outcome)
    /\ regens = <<>>
    /\ hasKey = FALSE
    /\ isRegenerating = FALSE
    /\ editingId = NoId
    /\ InQueue(images, lastEvent.id)
    /\ Item(images, lastEvent.id).status = "processing"

\* a step of a batch run, from the press of the Start button to the step that
\* ends the run, or a step of anything else taken while the run is in flight
DuringRun == StartStep \/ run.pc # "idle"

\* C28: from the start of a batch run to its end no step lowers the number of
\* completed items of the queue.
C28_CompletedCountNeverDecreases ==
    [][DuringRun => StatsCompleted(images') >= StatsCompleted(images)]_vars

\* C29: from the step in which a batch run or a Regenerate handler has caught
\* a key error until a key is saved again, no step sends a remote call for any
\* item.
C29_NoCallWhileKeyRejected ==
    [][keyRejected => lastEvent'.calls = {}]_vars

\* C30: with every file read and every remote call settling in the end, a
\* batch run in flight leads to a state in which no run is in flight and
\* isProcessing is false, and Regenerate handlers in flight lead to a state in
\* which none is in flight and isRegenerating is false.
C30_RunAndRegenerateEnd ==
    /\ (run.pc # "idle") ~> (run.pc = "idle" /\ ~isProcessing)
    /\ (regens # <<>>) ~> (regens = <<>> /\ ~isRegenerating)

\* C30 witness: a batch run and, after it, two regenerations of the page have
\* ended; nothing is in flight and both flags are cleared
C30_Witness ==
    /\ used.runs >= 1
    /\ used.regens = 2
    /\ lastEvent.op = "regenInpaintDone"
    /\ regens = <<>>
    /\ run.pc = "idle"
    /\ ~isProcessing
    /\ ~isRegenerating

\* C31: translateMangaImage and regenerateMangaImage build the same inpainting
\* instruction from the same reference text and target language: the
\* instruction a batch run sends after recognition returned X is the one
\* Regenerate builds from the text X, and the instruction every regeneration
\* has sent is the one a translate builds from its text.
C31_SameInstructionFromSameText ==
    /\ run.pc = "inpaint" =>
           run.prompt = RegeneratePrompt(run.targetLanguage, run.detectedText)
    /\ \A n \in 1..Len(regenLog) :
           regenLog[n].request[3] =
               TranslatePrompt(regenLog[n].targetLanguage, ReferenceText(regenLog[n].text))

\* a batch run has just ended, and not by the halt on an auth failure
RunJustEnded ==
    /\ lastEvent.op \in {"runReadFailed", "runInpaintDone"}
    /\ run.pc = "idle"
    /\ ~AuthSignal(lastEvent.outcome)

\* C32: when a batch run has ended without an auth failure, every item of the
\* queue is completed or in error, also the items uploaded during the run.
C32_RunLeavesNoItemBehind ==
    RunJustEnded =>
        \A j \in 1..Len(images) : images[j].status \in {"completed", "error"}

\* C33: every remote call a batch run sends is for an item that is in the
\* queue when the call is sent: an item removed during the run is not sent to
\* the recognition or the inpainting service afterwards.
C33_CallsOnlyForQueuedItems ==
    lastEvent.op \in {"runReadDone", "runOcrDone"} =>
        \A c \in lastEvent.calls : InQueue(images, c[1])

\* C34: in every state in which no batch run and no Regenerate handler is in
\* flight, no item of the queue is in processing.
C34_ProcessingOnlyWhileInFlight ==
    (run.pc = "idle" /\ regens = <<>>) =>
        \A j \in 1..Len(images) : images[j].status # "processing"

\* C35: every remote call is made with the key that is stored at the moment
\* the call is sent: the key a batch run hands to translateMangaImage, and the
\* key a Regenerate handler hands to regenerateMangaImage, is the value of the
\* local storage.
C35_CallsUseTheStoredKey ==
    /\ lastEvent.op \in {"runReadDone", "runOcrDone"} => run.apiKey = storedKey
    /\ lastEvent.op = "regenReadDone" =>
           \E k \in 1..Len(regens) :
               /\ regens[k].id = lastEvent.id
               /\ regens[k].pc = "inpaint"
               /\ regens[k].apiKey = storedKey

\* C36: at most one batch run is in progress at any time. isProcessing is set
\* exactly while a run is in flight; a press of Start takes effect (it is
\* counted as a run) only when no run is in flight and the queue is not
\* empty; in a state with isProcessing set or with an empty queue no step
\* starts a run, so no call is sent and no item changed by a second start.
C36_AtMostOneRun ==
    [][/\ isProcessing' <=> run'.pc # "idle"
       /\ used'.runs # used.runs =>
              /\ run.pc = "idle"
              /\ ~isProcessing
              /\ Len(images) > 0
              /\ lastEvent'.calls = {}
       /\ (isProcessing \/ Len(images) = 0) =>
              /\ used'.runs = used.runs
              /\ lastEvent'.op # "processImages"]_vars

\* C36 witness: a second run is in flight, started after the first had ended
C36_Witness ==
    /\ used.runs = 2
    /\ run.pc = "ocr"
    /\ isProcessing
    /\ run.attempts = <<1>>
    /\ Len(images) = 2

====
